---- MODULE Spec2Model ----
(***************************************************************************)
(* Course-review application: the server handlers of                       *)
(* SAP/functions/index.js and the client review service (reviewService)    *)
(* over one "reviews" collection of the document store, with the           *)
(* useReviews hook and the ReviewForm component of the page.               *)
(*                                                                         *)
(* JavaScript values are tagged records.  Numbers are kept in TENTHS       *)
(* (Num(25) is 2.5, Num(40) is 4), which is exact for the values the model *)
(* feeds in (integers and halves) and for one-decimal averages.  Strings   *)
(* are sequences of one-character strings over digits, letters and " ".    *)
(***************************************************************************)
EXTENDS Integers, Sequences, FiniteSets, TLC

VARIABLES
    store,      \* the "reviews" collection: store[i] is the document with id i
    now,        \* the store's clock: the value serverTimestamp() resolves to
    calls,      \* server upvote/report requests between two awaits
    applied,    \* applied[i]: increment(1) updates of helpfulVotes the store has executed on i
    last,       \* the most recent completed request and its response
    hook,       \* the state of one mounted useReviews hook and its courseCode
    pending,    \* the hook's service calls that have not settled yet
    form        \* the state of one mounted ReviewForm and its onSubmit call

\* the variables of the page
client == <<hook, pending, form>>

vars == <<store, now, calls, applied, last, hook, pending, form>>

----------------------------------------------------------------------------
(* JavaScript values *)

JS(t, n, s, b) == [t |-> t, n |-> n, s |-> s, b |-> b]
Undef   == JS("undefined", 0, <<>>, FALSE)
Null    == JS("null", 0, <<>>, FALSE)
NaN     == JS("nan", 0, <<>>, FALSE)
Num(n)  == JS("number", n, <<>>, FALSE)
Str(s)  == JS("string", 0, s, FALSE)
Bool(b) == JS("boolean", 0, <<>>, b)

Digits == <<"0", "1", "2", "3", "4", "5", "6", "7", "8", "9">>
IsDigit(c) == \E i \in 1..10 : Digits[i] = c
DigitVal(c) == (CHOOSE i \in 1..10 : Digits[i] = c) - 1
IsSpace(c) == c = " "

RECURSIVE Rep(_, _)
Rep(c, k) == IF k <= 0 THEN <<>> ELSE <<c>> \o Rep(c, k - 1)

\* ToBoolean: what `!x`, `x || y` and `x ? a : b` test
Truthy(v) ==
    CASE v.t = "undefined" -> FALSE
      [] v.t = "null"      -> FALSE
      [] v.t = "nan"       -> FALSE
      [] v.t = "boolean"   -> v.b
      [] v.t = "number"    -> v.n # 0
      [] v.t = "string"    -> v.s # <<>>

\* x || y
Or(x, y) == IF Truthy(x) THEN x ELSE y

\* String.prototype.trim
RECURSIVE TrimLeft(_)
TrimLeft(s) == IF s # <<>> /\ IsSpace(Head(s)) THEN TrimLeft(Tail(s)) ELSE s
RECURSIVE TrimRight(_)
TrimRight(s) ==
    IF s # <<>> /\ IsSpace(s[Len(s)]) THEN TrimRight(SubSeq(s, 1, Len(s) - 1)) ELSE s
Trim(s) == TrimRight(TrimLeft(s))

\* the longest prefix of decimal digits
RECURSIVE LeadingDigits(_)
LeadingDigits(s) ==
    IF s # <<>> /\ IsDigit(Head(s)) THEN <<Head(s)>> \o LeadingDigits(Tail(s)) ELSE <<>>

\* the integer a digit string denotes
RECURSIVE DigitsValue(_)
DigitsValue(s) ==
    IF s = <<>> THEN 0 ELSE 10 * DigitsValue(SubSeq(s, 1, Len(s) - 1)) + DigitVal(s[Len(s)])

\* the decimal digits of a natural number
RECURSIVE NatToDigits(_)
NatToDigits(k) ==
    IF k < 10 THEN <<Digits[k + 1]>> ELSE NatToDigits(k \div 10) \o <<Digits[(k % 10) + 1]>>

Abs(x) == IF x < 0 THEN -x ELSE x

\* Number::toString of a number given in tenths
NumberToString(n) ==
    (IF n < 0 THEN <<"-">> ELSE <<>>)
        \o NatToDigits(Abs(n) \div 10)
        \o (IF Abs(n) % 10 = 0 THEN <<>> ELSE <<".">> \o NatToDigits(Abs(n) % 10))

\* ToString
JSToString(v) ==
    CASE v.t = "string"    -> v.s
      [] v.t = "number"    -> NumberToString(v.n)
      [] v.t = "nan"       -> <<"N", "a", "N">>
      [] v.t = "undefined" -> <<"u", "n", "d", "e", "f", "i", "n", "e", "d">>
      [] v.t = "null"      -> <<"n", "u", "l", "l">>
      [] v.t = "boolean"   -> IF v.b THEN <<"t", "r", "u", "e">>
                                     ELSE <<"f", "a", "l", "s", "e">>

\* StringToNumber, for strings of digits, letters, "." and spaces
StringToNumber(s) ==
    LET t == Trim(s)
        i == LeadingDigits(t)
        r == SubSeq(t, Len(i) + 1, Len(t))
    IN  IF t = <<>> THEN Num(0)
        ELSE IF i # <<>> /\ r = <<>> THEN Num(10 * DigitsValue(i))
        ELSE IF i # <<>> /\ Len(r) = 2 /\ r[1] = "." /\ IsDigit(r[2])
             THEN Num(10 * DigitsValue(i) + DigitVal(r[2]))
        ELSE NaN

\* ToNumber
ToNumber(v) ==
    CASE v.t = "number"    -> v
      [] v.t = "nan"       -> NaN
      [] v.t = "undefined" -> NaN
      [] v.t = "null"      -> Num(0)
      [] v.t = "boolean"   -> IF v.b THEN Num(10) ELSE Num(0)
      [] v.t = "string"    -> StringToNumber(v.s)

\* x < k and x > k against a number literal k: both sides go through ToNumber,
\* and a comparison with NaN is false
Lt(x, k) == LET a == ToNumber(x) IN a.t = "number" /\ a.n < k.n
Gt(x, k) == LET a == ToNumber(x) IN a.t = "number" /\ a.n > k.n

\* parseInt(x): ToString, skip leading white space, an optional "-", then the
\* leading decimal digits; NaN when there are none
ParseInt(v) ==
    LET t   == TrimLeft(JSToString(v))
        neg == t # <<>> /\ Head(t) = "-"
        u   == IF neg THEN Tail(t) ELSE t
        i   == LeadingDigits(u)
    IN  IF i = <<>> THEN NaN
        ELSE Num((IF neg THEN -10 ELSE 10) * DigitsValue(i))

\* x.length of a string (undefined on anything else the model passes)
Length(v) == IF v.t = "string" THEN Num(10 * Len(v.s)) ELSE Undef

----------------------------------------------------------------------------
(* Bounds and program constants *)

MaxReviews == 2         \* documents the collection may hold
MaxClock == 3           \* writes the store executes in one behaviour

MinRating == 10             \* the literal 1 of the rating checks, in tenths
MaxRating == 50             \* the literal 5 of the rating checks, in tenths
MinReviewLength == 20       \* the literal 20 of the reviewText checks

Anonymous == <<"A", "n", "o", "n", "y", "m", "o", "u", "s">>

\* the fields of a submission body; an absent field reads as undefined
EmptySub ==
    [courseCode |-> Undef, courseName |-> Undef, collegeCode |-> Undef,
     subjectCode |-> Undef, courseNumber |-> Undef, rating |-> Undef,
     reviewText |-> Undef, difficultyRating |-> Undef, workloadRating |-> Undef,
     profHelpfulnessRating |-> Undef, semesterTaken |-> Undef,
     authorEmail |-> Undef, isAnonymous |-> Undef, authorName |-> Undef]

\* a response; the fields an operation does not set keep these values
NoResponse ==
    [op |-> "none", side |-> "none", sub |-> EmptySub, id |-> 0, course |-> Undef,
     status |-> 0, error |-> "", reviewId |-> 0, helpfulVotes |-> 0, totalVotes |-> 0,
     reviews |-> <<>>, totalReviews |-> 0, averageRating |-> Undef,
     averageDifficulty |-> Undef, averageWorkload |-> Undef,
     averageProfHelpfulness |-> Undef]

----------------------------------------------------------------------------
(* submitReview: validation and normalisation, server handler *)

\* index.js 101-114: "" when the body is admitted, else the 400 message
ValidateServer(d) ==
    IF ~Truthy(d.courseCode) THEN "courseCode is required"
    ELSE IF ~Truthy(d.rating) \/ Lt(d.rating, Num(MinRating)) \/ Gt(d.rating, Num(MaxRating))
         THEN "rating must be between 1 and 5"
    ELSE IF ~Truthy(d.reviewText) \/ Len(Trim(d.reviewText.s)) < MinReviewLength
         THEN "reviewText is required and must be at least 20 characters"
    ELSE ""

\* index.js 130-138: x ? parseInt(x) : null
OptionalServer(x) == IF Truthy(x) THEN ParseInt(x) ELSE Null

\* the e-mail redaction without its isAnonymous test
AuthorEmailServerLeak(d) == IF ~Truthy(d.authorEmail) THEN Null ELSE d.authorEmail

\* index.js 143-151
AuthorEmailServer(d) ==
    IF Truthy(d.isAnonymous) \/ ~Truthy(d.authorEmail) THEN Null ELSE d.authorEmail
IsAnonymousServer(d) == Bool(d.isAnonymous # Bool(FALSE))
AuthorNameServer(d) ==
    IF Truthy(d.isAnonymous) THEN Str(Anonymous) ELSE Or(d.authorName, Str(Anonymous))

\* index.js 117-160: reviewToSubmit, ts the time serverTimestamp() resolves to
ReviewServer(d, ts) ==
    [courseCode |-> d.courseCode,
     courseName |-> Or(d.courseName, Str(<<>>)),
     collegeCode |-> Or(d.collegeCode, Str(<<>>)),
     subjectCode |-> Or(d.subjectCode, Str(<<>>)),
     courseNumber |-> Or(d.courseNumber, Str(<<>>)),
     rating |-> ParseInt(d.rating),
     reviewText |-> Str(Trim(d.reviewText.s)),
     difficultyRating |-> OptionalServer(d.difficultyRating),
     workloadRating |-> OptionalServer(d.workloadRating),
     profHelpfulnessRating |-> OptionalServer(d.profHelpfulnessRating),
     semesterTaken |-> Or(d.semesterTaken, Str(<<>>)),
     authorEmail |-> AuthorEmailServer(d),
     isAnonymous |-> IsAnonymousServer(d),
     authorName |-> AuthorNameServer(d),
     createdAt |-> ts, updatedAt |-> ts, verified |-> FALSE,
     helpfulVotes |-> 0, totalVotes |-> 0, reportedCount |-> 0]

----------------------------------------------------------------------------
(* submitReview: validation and normalisation, client service *)

\* reviewService 61-74: "" when the data is admitted, else the message thrown
ValidateClient(d) ==
    IF ~Truthy(d.courseCode) \/ ~Truthy(d.rating) \/ ~Truthy(d.reviewText)
    THEN "Missing required fields: courseCode, rating, or reviewText"
    ELSE IF Lt(d.rating, Num(MinRating)) \/ Gt(d.rating, Num(MaxRating))
         THEN "Rating must be between 1 and 5"
    ELSE IF Lt(Length(d.reviewText), Num(10 * MinReviewLength))
         THEN "Review text must be at least 20 characters"
    ELSE ""

\* reviewService 96-99
AuthorEmailClient(d) == IF Truthy(d.isAnonymous) THEN Null ELSE d.authorEmail
IsAnonymousClient(d) == Or(d.isAnonymous, Bool(TRUE))
AuthorNameClient(d) == IF Truthy(d.isAnonymous) THEN Str(Anonymous) ELSE d.authorName

\* reviewService 76-108: reviewToSubmit
ReviewClient(d, ts) ==
    [courseCode |-> d.courseCode,
     courseName |-> Or(d.courseName, Str(<<>>)),
     collegeCode |-> Or(d.collegeCode, Str(<<>>)),
     subjectCode |-> Or(d.subjectCode, Str(<<>>)),
     courseNumber |-> Or(d.courseNumber, Str(<<>>)),
     rating |-> d.rating,
     reviewText |-> d.reviewText,
     difficultyRating |-> Or(d.difficultyRating, Null),
     workloadRating |-> Or(d.workloadRating, Null),
     profHelpfulnessRating |-> Or(d.profHelpfulnessRating, Null),
     semesterTaken |-> Or(d.semesterTaken, Str(<<>>)),
     authorEmail |-> AuthorEmailClient(d),
     isAnonymous |-> IsAnonymousClient(d),
     authorName |-> AuthorNameClient(d),
     createdAt |-> ts, updatedAt |-> ts, verified |-> FALSE,
     helpfulVotes |-> 0, totalVotes |-> 0, reportedCount |-> 0]

\* addDoc of the web SDK refuses a document holding undefined, unless the
\* Firestore instance was set up with ignoreUndefinedProperties, and then the
\* field is left out (it reads back as undefined).  The set-up is in ./firebase,
\* which is not among the sources: both outcomes are possible.
HasUndefined(doc) ==
    \E f \in {"courseCode", "courseName", "collegeCode", "subjectCode", "courseNumber",
              "rating", "reviewText", "difficultyRating", "workloadRating",
              "profHelpfulnessRating", "semesterTaken", "authorEmail", "isAnonymous",
              "authorName"} : doc[f] = Undef

----------------------------------------------------------------------------
(* The store's primitives *)

\* a write under one fixed document name, which replaces what the collection held
AddUnderFixedName(doc) ==
    /\ Len(store) < MaxReviews
    /\ now < MaxClock
    /\ now' = now + 1
    /\ store' = <<doc>>
    /\ applied' = <<0>>

\* collection.add / addDoc: a new document under a fresh id, at the next clock tick
Add(doc) ==
    /\ Len(store) < MaxReviews
    /\ now < MaxClock
    /\ now' = now + 1
    /\ store' = Append(store, doc)
    /\ applied' = Append(applied, 0)

\* an upvote that forgets totalVotes
UpvoteWriteHelpfulOnly(cur, ts) ==
    [cur EXCEPT !.helpfulVotes = @ + 1, !.updatedAt = ts]

\* reviewService 127-131, index.js 206-210: the document cur after
\* update({helpfulVotes: increment(1), totalVotes: increment(1),
\* updatedAt: serverTimestamp()})
UpvoteWrite(cur, ts) ==
    [cur EXCEPT !.helpfulVotes = @ + 1, !.totalVotes = @ + 1, !.updatedAt = ts]

\* a report that also counts as a vote
ReportWriteCountsVote(cur, ts) ==
    [cur EXCEPT !.reportedCount = @ + 1, !.totalVotes = @ + 1, !.updatedAt = ts]

\* reviewService 149-152, index.js 257-260: the document cur after
\* update({reportedCount: increment(1), updatedAt: serverTimestamp()})
ReportWrite(cur, ts) ==
    [cur EXCEPT !.reportedCount = @ + 1, !.updatedAt = ts]

Exists(id) == id \in DOMAIN store

\* reviewRef.update / updateDoc of an existing document, at the next clock tick
Update(id, doc) ==
    /\ now < MaxClock
    /\ now' = now + 1
    /\ store' = [store EXCEPT ![id] = doc]

----------------------------------------------------------------------------
(* Server requests between two awaits *)

Callers == {"a", "b"}       \* two requests may be in flight at once
NoDoc == [exists |-> FALSE, helpfulVotes |-> 0, totalVotes |-> 0]
Idle == [pc |-> "idle", op |-> "none", id |-> 0, doc |-> NoDoc]

\* what the handler keeps of the snapshot `doc` of reviewRef.get()
Snapshot(id) ==
    [exists |-> TRUE, helpfulVotes |-> store[id].helpfulVotes,
     totalVotes |-> store[id].totalVotes]

\* a handler that writes back the counts of its own snapshot plus one
UpvoteServerWriteStale(cur, snap, ts) ==
    [cur EXCEPT !.helpfulVotes = snap.helpfulVotes + 1,
                !.totalVotes = snap.totalVotes + 1, !.updatedAt = ts]

\* index.js 199-210: what the handler's update makes of the stored document
\* cur, having read the snapshot snap at line 200: the update names increments,
\* which the store applies to the document it holds
UpvoteServerWrite(cur, snap, ts) == UpvoteWrite(cur, ts)

\* the ids a request may name: 0 is the empty path segment, MaxReviews + 1 is
\* never assigned
RequestIds == 0..(MaxReviews + 1)

----------------------------------------------------------------------------
(* Actions: submitReview *)

\* a handler that writes the document before it validates the body
SubmitServerWriteFirst(d) ==
    /\ UNCHANGED client
    /\ Add(ReviewServer(d, now + 1))
    /\ last' = IF ValidateServer(d) # ""
               THEN [NoResponse EXCEPT !.op = "submitReview", !.side = "server",
                         !.sub = d, !.status = 400, !.error = ValidateServer(d)]
               ELSE [NoResponse EXCEPT !.op = "submitReview", !.side = "server",
                         !.sub = d, !.status = 201, !.reviewId = Len(store) + 1]
    /\ UNCHANGED calls

\* index.js 92-177, POST with body d
SubmitServer(d) ==
    /\ UNCHANGED client
    /\ IF ValidateServer(d) # ""
       THEN /\ last' = [NoResponse EXCEPT !.op = "submitReview", !.side = "server",
                            !.sub = d, !.status = 400, !.error = ValidateServer(d)]
            /\ UNCHANGED <<store, now, applied>>
       ELSE /\ Add(ReviewServer(d, now + 1))
            /\ last' = [NoResponse EXCEPT !.op = "submitReview", !.side = "server",
                            !.sub = d, !.status = 201, !.reviewId = Len(store) + 1]
    /\ UNCHANGED calls

\* reviewService 59-116, called with reviewData d; status 0 is a resolved
\* promise, an error message a rejected one
SubmitClient(d) ==
    /\ UNCHANGED client
    /\ IF ValidateClient(d) # ""
       THEN /\ last' = [NoResponse EXCEPT !.op = "submitReview", !.side = "client",
                            !.sub = d, !.error = ValidateClient(d)]
            /\ UNCHANGED <<store, now, applied>>
       ELSE \/ /\ HasUndefined(ReviewClient(d, now + 1))
               /\ last' = [NoResponse EXCEPT !.op = "submitReview", !.side = "client",
                               !.sub = d, !.error = "Unsupported field value: undefined"]
               /\ UNCHANGED <<store, now, applied>>
            \/ /\ Add(ReviewClient(d, now + 1))
               /\ last' = [NoResponse EXCEPT !.op = "submitReview", !.side = "client",
                               !.sub = d, !.reviewId = Len(store) + 1]
    /\ UNCHANGED calls

----------------------------------------------------------------------------
(* Actions: upvoteReview and reportReview, server handlers *)

Respond(op, side, id) == [NoResponse EXCEPT !.op = op, !.side = side, !.id = id]

\* index.js 190-204: the id from the path, reviewRef.get(), the existence check
UpvoteServerGet(c, id) ==
    /\ UNCHANGED client
    /\ calls[c].pc = "idle"
    /\ IF id = 0
       THEN /\ last' = [Respond("upvoteReview", "server", id) EXCEPT
                            !.status = 400, !.error = "reviewId is required"]
            /\ UNCHANGED calls
       ELSE IF ~Exists(id)
       THEN /\ last' = [Respond("upvoteReview", "server", id) EXCEPT
                            !.status = 404, !.error = "Review not found"]
            /\ UNCHANGED calls
       ELSE /\ calls' = [calls EXCEPT ![c] = [pc |-> "update", op |-> "upvoteReview",
                                              id |-> id, doc |-> Snapshot(id)]]
            /\ UNCHANGED last
    /\ UNCHANGED <<store, now, applied>>

\* index.js 206-210: reviewRef.update
UpvoteServerUpdate(c) ==
    /\ UNCHANGED client
    /\ calls[c].pc = "update" /\ calls[c].op = "upvoteReview"
    /\ Update(calls[c].id, UpvoteServerWrite(store[calls[c].id], calls[c].doc, now + 1))
    /\ applied' = [applied EXCEPT ![calls[c].id] = @ + 1]
    /\ calls' = [calls EXCEPT ![c].pc = "readback"]
    /\ UNCHANGED last

\* index.js 212-219: the second reviewRef.get() and the response
UpvoteServerReadBack(c) ==
    /\ UNCHANGED client
    /\ calls[c].pc = "readback"
    /\ last' = [Respond("upvoteReview", "server", calls[c].id) EXCEPT
                    !.status = 200,
                    !.helpfulVotes = store[calls[c].id].helpfulVotes,
                    !.totalVotes = store[calls[c].id].totalVotes]
    /\ calls' = [calls EXCEPT ![c] = Idle]
    /\ UNCHANGED <<store, now, applied>>

\* index.js 241-255
ReportServerGet(c, id) ==
    /\ UNCHANGED client
    /\ calls[c].pc = "idle"
    /\ IF id = 0
       THEN /\ last' = [Respond("reportReview", "server", id) EXCEPT
                            !.status = 400, !.error = "reviewId is required"]
            /\ UNCHANGED calls
       ELSE IF ~Exists(id)
       THEN /\ last' = [Respond("reportReview", "server", id) EXCEPT
                            !.status = 404, !.error = "Review not found"]
            /\ UNCHANGED calls
       ELSE /\ calls' = [calls EXCEPT ![c] = [pc |-> "update", op |-> "reportReview",
                                              id |-> id, doc |-> Snapshot(id)]]
            /\ UNCHANGED last
    /\ UNCHANGED <<store, now, applied>>

\* index.js 257-265: reviewRef.update and the response
ReportServerUpdate(c) ==
    /\ UNCHANGED client
    /\ calls[c].pc = "update" /\ calls[c].op = "reportReview"
    /\ Update(calls[c].id, ReportWrite(store[calls[c].id], now + 1))
    /\ last' = [Respond("reportReview", "server", calls[c].id) EXCEPT !.status = 200]
    /\ calls' = [calls EXCEPT ![c] = Idle]
    /\ UNCHANGED applied

----------------------------------------------------------------------------
(* Actions: upvoteReview and reportReview, client service *)

\* reviewService 123-138: one updateDoc, which rejects when the document does
\* not exist; the catch rethrows 'Failed to upvote review'
UpvoteClient(id) ==
    /\ UNCHANGED client
    /\ id # 0
    /\ IF Exists(id)
       THEN /\ Update(id, UpvoteWrite(store[id], now + 1))
            /\ applied' = [applied EXCEPT ![id] = @ + 1]
            /\ last' = Respond("upvoteReview", "client", id)
       ELSE /\ last' = [Respond("upvoteReview", "client", id) EXCEPT
                            !.error = "Failed to upvote review"]
            /\ UNCHANGED <<store, now, applied>>
    /\ UNCHANGED calls

\* reviewService 145-159
ReportClient(id) ==
    /\ UNCHANGED client
    /\ id # 0
    /\ IF Exists(id)
       THEN /\ Update(id, ReportWrite(store[id], now + 1))
            /\ last' = Respond("reportReview", "client", id)
            /\ UNCHANGED applied
       ELSE /\ last' = [Respond("reportReview", "client", id) EXCEPT
                            !.error = "Failed to report review"]
            /\ UNCHANGED <<store, now, applied>>
    /\ UNCHANGED calls

----------------------------------------------------------------------------
(* Aggregation *)

\* a + b: concatenation when either side is a string, else numeric addition
Plus(a, b) ==
    IF a.t = "string" \/ b.t = "string"
    THEN Str(JSToString(a) \o JSToString(b))
    ELSE LET x == ToNumber(a)
             y == ToNumber(b)
         IN  IF x.t = "nan" \/ y.t = "nan" THEN NaN ELSE Num(x.n + y.n)

\* how the double nearest to p/q (p, q > 0) compares with p/q: the 52 fraction
\* bits of the significand by long division, then round-to-nearest-even on the
\* remainder
RECURSIVE SignificandRounding(_, _, _, _)
SignificandRounding(rem, q, k, lastBit) ==
    IF rem = 0 THEN "exact"
    ELSE IF k = 0
         THEN IF 2 * rem > q THEN "up"
              ELSE IF 2 * rem < q THEN "down"
              ELSE IF lastBit = 1 THEN "up" ELSE "down"
    ELSE IF 2 * rem >= q
         THEN SignificandRounding(2 * rem - q, q, k - 1, 1)
         ELSE SignificandRounding(2 * rem, q, k - 1, 0)

RECURSIVE DoubleRounding(_, _)
DoubleRounding(p, q) ==
    IF p >= 2 * q THEN DoubleRounding(p, 2 * q)
    ELSE IF p < q THEN DoubleRounding(2 * p, q)
    ELSE SignificandRounding(p - q, q, 52, 1)

\* parseFloat((t / n).toFixed(1)) in tenths, for a total of t tenths and n > 0:
\* toFixed takes the one-decimal value nearest to the double t/n and the larger
\* one when the double is exactly half way
ToFixed1(t, n) ==
    LET a == Abs(t)
        q == a \div n
        r == a % n
        m == IF 2 * r < n THEN q
             ELSE IF 2 * r > n THEN q + 1
             ELSE IF DoubleRounding(a, 10 * n) = "down" THEN q ELSE q + 1
    IN  IF t < 0 THEN -m ELSE m

\* parseFloat((total / n).toFixed(1)); 0 / 0 is NaN
Average(total, n) ==
    LET x == ToNumber(total)
    IN  IF x.t = "nan" \/ n = 0 THEN NaN ELSE Num(ToFixed1(x.n, n))

\* res.json of a number: JSON has no NaN, it is written as null
Json(v) == IF v.t = "nan" THEN Null ELSE v

ValueFields ==
    {"courseCode", "courseName", "collegeCode", "subjectCode", "courseNumber",
     "rating", "reviewText", "difficultyRating", "workloadRating",
     "profHelpfulnessRating", "semesterTaken", "authorEmail", "isAnonymous",
     "authorName"}

JsonDoc(doc) ==
    [f \in DOMAIN doc |-> IF f \in ValueFields THEN Json(doc[f]) ELSE doc[f]]

\* {id: doc.id, ...doc.data()}
WithId(i) == [id |-> i] @@ store[i]

\* where("courseCode", "==", course)
Matching(course) == {i \in DOMAIN store : store[i].courseCode = course}

\* orderBy("helpfulVotes", "asc")
RECURSIVE ByHelpfulVotesAsc(_)
ByHelpfulVotesAsc(S) ==
    IF S = {} THEN <<>>
    ELSE LET low == CHOOSE i \in S : \A j \in S :
                        \/ store[i].helpfulVotes < store[j].helpfulVotes
                        \/ store[i].helpfulVotes = store[j].helpfulVotes /\ i <= j
         IN  <<low>> \o ByHelpfulVotesAsc(S \ {low})

\* orderBy("helpfulVotes", "desc"): ties fall back on the document name, in the
\* same direction
RECURSIVE ByHelpfulVotesDesc(_)
ByHelpfulVotesDesc(S) ==
    IF S = {} THEN <<>>
    ELSE LET top == CHOOSE i \in S : \A j \in S :
                        \/ store[i].helpfulVotes > store[j].helpfulVotes
                        \/ store[i].helpfulVotes = store[j].helpfulVotes /\ i >= j
         IN  <<top>> \o ByHelpfulVotesDesc(S \ {top})

\* a query without orderBy returns the documents by name
RECURSIVE ByName(_)
ByName(S) ==
    IF S = {} THEN <<>>
    ELSE LET first == CHOOSE i \in S : \A j \in S : i <= j
         IN  <<first>> \o ByName(S \ {first})

\* totalRating after the forEach over the ids of `ids`, in order
RECURSIVE TotalRating(_)
TotalRating(ids) ==
    IF ids = <<>> THEN Num(0)
    ELSE Plus(TotalRating(SubSeq(ids, 1, Len(ids) - 1)), store[ids[Len(ids)]].rating)

\* index.js 322-333: the total and the count of one optional rating, which the
\* loop adds only when the stored value is truthy
RECURSIVE TotalOptional(_, _)
TotalOptional(ids, f) ==
    IF ids = <<>> THEN Num(0)
    ELSE LET rest == TotalOptional(SubSeq(ids, 1, Len(ids) - 1), f)
             x    == store[ids[Len(ids)]][f]
         IN  IF Truthy(x) THEN Plus(rest, x) ELSE rest

CountOptional(ids, f) == Cardinality({k \in 1..Len(ids) : Truthy(store[ids[k]][f])})

\* index.js 342-350: count ? parseFloat((total / count).toFixed(1)) : 0
AverageOptional(ids, f) ==
    IF CountOptional(ids, f) # 0
    THEN Json(Average(TotalOptional(ids, f), CountOptional(ids, f)))
    ELSE Num(0)

\* the average without the test for an empty result
AverageRatingClientUnguarded(ids) == Average(TotalRating(ids), Len(ids))

\* reviewService 41-45: reviews.length > 0 ? totalRating / reviews.length : 0,
\* then parseFloat(averageRating.toFixed(1))
AverageRatingClient(ids) ==
    IF Len(ids) > 0 THEN Average(TotalRating(ids), Len(ids)) ELSE Average(Num(0), 1)

----------------------------------------------------------------------------
(* Actions: the reads *)

\* a handler that counts each read of a review as a vote on it
GetReviewsServerCountingViews(course) ==
    /\ UNCHANGED client
    /\ LET ids == ByHelpfulVotesDesc(Matching(course))
           r   == [Respond("getReviews", "server", 0) EXCEPT !.course = course]
       IN  last' = [r EXCEPT !.status = 200,
                            !.reviews = [k \in 1..Len(ids) |-> JsonDoc(WithId(ids[k]))],
                            !.averageRating = Json(Average(TotalRating(ids), Len(ids))),
                            !.totalReviews = Len(ids)]
    /\ store' = [i \in DOMAIN store |->
                    IF i \in Matching(course)
                    THEN [store[i] EXCEPT !.totalVotes = @ + 1] ELSE store[i]]
    /\ UNCHANGED <<now, calls, applied>>

\* index.js 16-71, GET with query parameter courseCode = course
GetReviewsServer(course) ==
    /\ UNCHANGED client
    /\ LET ids == ByHelpfulVotesDesc(Matching(course))
           r   == [Respond("getReviews", "server", 0) EXCEPT !.course = course]
       IN  last' =
             IF ~Truthy(course)
             THEN [r EXCEPT !.status = 400, !.error = "courseCode is required"]
             ELSE IF ids = <<>>
             THEN [r EXCEPT !.status = 200, !.averageRating = Num(0)]
             ELSE [r EXCEPT !.status = 200,
                            !.reviews = [k \in 1..Len(ids) |-> JsonDoc(WithId(ids[k]))],
                            !.averageRating = Json(Average(TotalRating(ids), Len(ids))),
                            !.totalReviews = Len(ids)]
    /\ UNCHANGED <<store, now, calls, applied>>

\* reviewService 22-47: what getReviewsByCourse(course) resolves to
GetReviewsByCourse(course) ==
    LET ids == ByHelpfulVotesDesc(Matching(course))
        r   == [Respond("getReviews", "client", 0) EXCEPT !.course = course]
    IN  [r EXCEPT !.reviews = [k \in 1..Len(ids) |-> WithId(ids[k])],
                  !.averageRating = AverageRatingClient(ids),
                  !.totalReviews = Len(ids)]

\* reviewService 22-52
GetReviewsClient(course) ==
    /\ UNCHANGED client
    /\ last' = GetReviewsByCourse(course)
    /\ UNCHANGED <<store, now, calls, applied>>

\* index.js 280-360, GET with the courseCode path segment = course
GetCourseStats(course) ==
    /\ UNCHANGED client
    /\ LET ids == ByName(Matching(course))
           r   == [Respond("getCourseStats", "server", 0) EXCEPT !.course = course]
       IN  last' =
             IF ~Truthy(course)
             THEN [r EXCEPT !.status = 400, !.error = "courseCode is required"]
             ELSE IF ids = <<>>
             THEN [r EXCEPT !.status = 200, !.averageRating = Num(0),
                            !.averageDifficulty = Num(0), !.averageWorkload = Num(0),
                            !.averageProfHelpfulness = Num(0)]
             ELSE [r EXCEPT !.status = 200,
                            !.totalReviews = Len(ids),
                            !.averageRating = Json(Average(TotalRating(ids), Len(ids))),
                            !.averageDifficulty = AverageOptional(ids, "difficultyRating"),
                            !.averageWorkload = AverageOptional(ids, "workloadRating"),
                            !.averageProfHelpfulness =
                                AverageOptional(ids, "profHelpfulnessRating")]
    /\ UNCHANGED <<store, now, calls, applied>>

----------------------------------------------------------------------------
(* The useReviews hook *)

\* the service calls one hook may have outstanding at once
MaxPending == 2
Slots == 1..MaxPending

\* useReviews.js 10-14: the useState initial values, before the first effect
HookInit ==
    [courseCode |-> Undef, reviews |-> <<>>, averageRating |-> Num(0),
     totalReviews |-> 0, loading |-> TRUE, error |-> ""]

NoPending ==
    [pc |-> "idle", op |-> "none", course |-> Undef, id |-> 0, data |-> NoResponse]

\* the free slot a new call takes
Free(k) == pending[k].pc = "idle" /\ \A j \in Slots : j < k => pending[j].pc # "idle"

\* useReviews.js 17-27: the component renders with another courseCode, the
\* effect runs fetchReviews, which runs up to its await with the courseCode of
\* that render
Render(course) ==
    /\ UNCHANGED form
    /\ course # hook.courseCode
    /\ Truthy(course)
    /\ \E k \in Slots :
          /\ Free(k)
          /\ pending' = [pending EXCEPT ![k] =
                            [NoPending EXCEPT !.pc = "query", !.op = "fetchReviews",
                                              !.course = course]]
    /\ hook' = [hook EXCEPT !.courseCode = course, !.loading = TRUE, !.error = ""]
    /\ UNCHANGED <<store, now, calls, applied, last>>

\* reviewService 31: the query of an outstanding fetch runs against the store
FetchQuery(k) ==
    /\ UNCHANGED form
    /\ pending[k].pc = "query" /\ pending[k].op = "fetchReviews"
    /\ pending' = [pending EXCEPT ![k].pc = "settle",
                                  ![k].data = GetReviewsByCourse(pending[k].course)]
    /\ UNCHANGED <<store, now, calls, applied, last, hook>>

\* useReviews.js 28-30 and 35: the promise resolves and the setters run
FetchSettle(k) ==
    /\ UNCHANGED form
    /\ pending[k].pc = "settle" /\ pending[k].op = "fetchReviews"
    /\ hook' = [hook EXCEPT !.reviews = pending[k].data.reviews,
                            !.averageRating = pending[k].data.averageRating,
                            !.totalReviews = pending[k].data.totalReviews,
                            !.loading = FALSE]
    /\ pending' = [pending EXCEPT ![k] = NoPending]
    /\ UNCHANGED <<store, now, calls, applied, last>>

\* useReviews.js 88, 47: refreshReviews (and addReview after its submission)
\* runs fetchReviews again for the courseCode of the current render
Refresh ==
    /\ UNCHANGED form
    /\ Truthy(hook.courseCode)
    /\ \E k \in Slots :
          /\ Free(k)
          /\ pending' = [pending EXCEPT ![k] =
                            [NoPending EXCEPT !.pc = "query", !.op = "fetchReviews",
                                              !.course = hook.courseCode]]
    /\ hook' = [hook EXCEPT !.loading = TRUE, !.error = ""]
    /\ UNCHANGED <<store, now, calls, applied, last>>

\* useReviews.js 56-58: markHelpful(id) runs up to its await
MarkHelpful(id) ==
    /\ UNCHANGED form
    /\ \E k \in Slots :
          /\ Free(k)
          /\ pending' = [pending EXCEPT ![k] =
                            [NoPending EXCEPT !.pc = "update", !.op = "markHelpful",
                                              !.id = id]]
    /\ UNCHANGED <<store, now, calls, applied, last, hook>>

\* reviewService 123-138: the store executes (or refuses) the updateDoc of an
\* outstanding markHelpful
MarkHelpfulUpdate(k) ==
    /\ UNCHANGED form
    /\ pending[k].pc = "update" /\ pending[k].op = "markHelpful"
    /\ IF Exists(pending[k].id)
       THEN /\ Update(pending[k].id, UpvoteWrite(store[pending[k].id], now + 1))
            /\ applied' = [applied EXCEPT ![pending[k].id] = @ + 1]
            /\ pending' = [pending EXCEPT ![k].pc = "settle"]
       ELSE /\ pending' = [pending EXCEPT ![k].pc = "settle",
                                          ![k].data.error = "Failed to upvote review"]
            /\ UNCHANGED <<store, now, applied>>
    /\ UNCHANGED <<calls, last, hook>>

\* useReviews.js 61-71
LocalUpvote(review, id) ==
    IF review.id = id
    THEN [review EXCEPT !.helpfulVotes = @ + 1, !.totalVotes = @ + 1]
    ELSE review

\* useReviews.js 60-77: the promise of upvoteReview settles; the result of
\* markHelpful is the response {success, error}
MarkHelpfulSettle(k) ==
    /\ UNCHANGED form
    /\ pending[k].pc = "settle" /\ pending[k].op = "markHelpful"
    /\ IF pending[k].data.error = ""
       THEN hook' = [hook EXCEPT !.reviews =
                        [i \in DOMAIN hook.reviews |->
                            LocalUpvote(hook.reviews[i], pending[k].id)]]
       ELSE hook' = hook
    /\ last' = [Respond("markHelpful", "hook", pending[k].id) EXCEPT
                    !.error = pending[k].data.error]
    /\ pending' = [pending EXCEPT ![k] = NoPending]
    /\ UNCHANGED <<store, now, calls, applied>>

----------------------------------------------------------------------------
(* The ReviewForm component *)

NoErrors == [rating |-> "", reviewText |-> "", authorName |-> "", submit |-> ""]

\* ReviewForm.jsx 11-24: formData (the fields validateForm reads), errors,
\* isSubmitting; call is the onSubmit call that has not settled, with its argument
FormInit ==
    [rating |-> Num(0), reviewText |-> Str(<<>>), isAnonymous |-> Bool(TRUE),
     authorName |-> Str(<<>>), errors |-> NoErrors, isSubmitting |-> FALSE,
     call |-> [pc |-> "idle", data |-> EmptySub]]

\* a validation that measures the text as typed
ValidateFormUntrimmed(f) ==
    [NoErrors EXCEPT
        !.rating = IF f.rating = Num(0) THEN "Please select a rating" ELSE "",
        !.reviewText =
            IF f.reviewText.s = <<>> THEN "Review text is required"
            ELSE IF Len(f.reviewText.s) < MinReviewLength
                 THEN "Review must be at least 20 characters"
                 ELSE "",
        !.authorName =
            IF f.isAnonymous = Bool(FALSE) /\ Trim(f.authorName.s) = <<>>
            THEN "Please enter your name or select anonymous" ELSE ""]

\* ReviewForm.jsx 50-66: newErrors
ValidateForm(f) ==
    [NoErrors EXCEPT
        !.rating = IF f.rating = Num(0) THEN "Please select a rating" ELSE "",
        !.reviewText =
            IF Trim(f.reviewText.s) = <<>> THEN "Review text is required"
            ELSE IF Len(Trim(f.reviewText.s)) < MinReviewLength
                 THEN "Review must be at least 20 characters"
                 ELSE "",
        !.authorName =
            IF ~Truthy(f.isAnonymous) /\ Trim(f.authorName.s) = <<>>
            THEN "Please enter your name or select anonymous" ELSE ""]

\* ReviewForm.jsx 39-48, called by a star button (98-108) for the overall rating
HandleRatingChange(value) ==
    /\ form' = [form EXCEPT !.rating = Num(10 * value), !.errors.rating = ""]
    /\ UNCHANGED <<store, now, calls, applied, last, hook, pending>>

\* ReviewForm.jsx 26-37, for the inputs named reviewText, authorName, isAnonymous
HandleInputChange(name, value) ==
    /\ form' = [form EXCEPT ![name] = value, !.errors[name] = ""]
    /\ UNCHANGED <<store, now, calls, applied, last, hook, pending>>

\* ReviewForm.jsx 240: the anonymous checkbox has no entry in errors
HandleCheckboxChange(checked) ==
    /\ form' = [form EXCEPT !.isAnonymous = Bool(checked)]
    /\ UNCHANGED <<store, now, calls, applied, last, hook, pending>>

\* ReviewForm.jsx 71-85: the form is submitted, which the button allows only
\* while it is not disabled (line 240); handleSubmit runs up to its await
HandleSubmit ==
    /\ ~form.isSubmitting
    /\ form' =
          IF ValidateForm(form) # NoErrors
          THEN [form EXCEPT !.errors = ValidateForm(form)]
          ELSE [form EXCEPT
                   !.errors = NoErrors,
                   !.isSubmitting = TRUE,
                   !.call = [pc |-> "outstanding",
                             data |-> [EmptySub EXCEPT
                                          !.rating = form.rating,
                                          !.reviewText = form.reviewText,
                                          !.isAnonymous = form.isAnonymous,
                                          !.authorName = form.authorName]]]
    /\ UNCHANGED <<store, now, calls, applied, last, hook, pending>>

\* ReviewForm.jsx 80-91: onSubmit resolves; finally
OnSubmitResolves ==
    /\ form.call.pc = "outstanding"
    /\ form' = [form EXCEPT !.isSubmitting = FALSE,
                            !.call = [pc |-> "idle", data |-> EmptySub]]
    /\ UNCHANGED <<store, now, calls, applied, last, hook, pending>>

\* ReviewForm.jsx 86-91: onSubmit throws; catch, finally
OnSubmitThrows ==
    /\ form.call.pc = "outstanding"
    /\ form' = [form EXCEPT
                   !.errors = [NoErrors EXCEPT
                                  !.submit = "Failed to submit review. Please try again."],
                   !.isSubmitting = FALSE,
                   !.call = [pc |-> "idle", data |-> EmptySub]]
    /\ UNCHANGED <<store, now, calls, applied, last, hook, pending>>

----------------------------------------------------------------------------
(* Inputs *)

CS101 == Str(<<"C", "S", "1", "0", "1">>)
MA201 == Str(<<"M", "A", "2", "0", "1">>)
Al == Str(<<"A", "l">>)
AlMail == Str(<<"a", "l", "a", "b">>)
Fall == Str(<<"F", "2", "4">>)

\* k letters between l and r spaces
Text(l, k, r) == Str(Rep(" ", l) \o Rep("x", k) \o Rep(" ", r))

\* an admissible anonymous review of CS101
Plain ==
    [EmptySub EXCEPT !.courseCode = CS101, !.rating = Num(40),
                     !.reviewText = Text(0, MinReviewLength, 0),
                     !.isAnonymous = Bool(TRUE)]

CourseCodeVals == {Undef, Str(<<>>), CS101}
RatingVals ==
    {Undef, Null, Num(0), Num(10), Num(25), Num(50), Num(60), Num(-10),
     Str(<<>>), Str(<<"3">>), Str(<<"7">>), Str(<<"a", "b", "c">>)}
TextVals ==
    {Undef, Str(<<>>), Text(0, MinReviewLength - 1, 0), Text(0, MinReviewLength, 0),
     Text(0, MinReviewLength + 1, 0), Text(0, MinReviewLength - 1, 1),
     Text(2, MinReviewLength - 2, 3), Text(1, MinReviewLength, 1),
     Str(Rep(" ", MinReviewLength))}
OptionalVals ==
    {Undef, Null, Num(0), Num(10), Num(50), Num(90), Num(25), Num(-10),
     Str(<<"4">>), Str(<<"a", "b", "c">>)}
AnonymousVals == {Undef, Null, Bool(TRUE), Bool(FALSE)}
NameVals == {Undef, Str(<<>>), Al}
EmailVals == {Undef, Str(<<>>), AlMail}

\* the submissions of the validation/normalisation specification: Plain varied
\* along each group of fields the code treats together
ValidationSubs ==
    {[Plain EXCEPT !.courseCode = c, !.rating = r, !.reviewText = t] :
        c \in CourseCodeVals, r \in RatingVals, t \in TextVals}
OptionalSubs ==
    {[Plain EXCEPT !.difficultyRating = x, !.workloadRating = y,
                   !.profHelpfulnessRating = z] :
        x \in OptionalVals, y \in {Undef, Num(30), Num(90)}, z \in {Undef, Num(0), Num(20)}}
AuthorSubs ==
    {[Plain EXCEPT !.isAnonymous = a, !.authorName = n, !.authorEmail = e] :
        a \in AnonymousVals, n \in NameVals, e \in EmailVals}
CourseSubs ==
    {[Plain EXCEPT !.courseName = x, !.collegeCode = x, !.subjectCode = y,
                   !.courseNumber = y, !.semesterTaken = z] :
        x \in {Undef, Str(<<"x">>)}, y \in {Undef, Str(<<>>)}, z \in {Undef, Fall}}
WideSubs == ValidationSubs \cup OptionalSubs \cup AuthorSubs \cup CourseSubs

----------------------------------------------------------------------------
(* Specifications *)

Init ==
    /\ store = <<>>
    /\ now = 0
    /\ calls = [c \in Callers |-> Idle]
    /\ applied = <<>>
    /\ last = NoResponse
    /\ hook = HookInit
    /\ pending = [k \in Slots |-> NoPending]
    /\ form = FormInit

\* validation and normalisation: every submission of WideSubs, through either
\* boundary, against the empty collection
NextSubmit ==
    \/ \E d \in WideSubs : store = <<>> /\ SubmitServer(d)
    \/ \E d \in WideSubs : store = <<>> /\ SubmitClient(d)

SpecSubmit == Init /\ [][NextSubmit]_vars

\* the submissions of the store specifications: two courses, both boundaries
\* persisting the same document for each
WriteSubs == {Plain, [Plain EXCEPT !.courseCode = MA201, !.rating = Num(30)]}

\* the writes, with two server requests in flight
NextWrites ==
    \/ \E d \in WriteSubs : SubmitServer(d)
    \/ \E d \in WriteSubs : SubmitClient(d)
    \/ \E c \in Callers, id \in RequestIds : UpvoteServerGet(c, id)
    \/ \E c \in Callers : UpvoteServerUpdate(c)
    \/ \E c \in Callers : UpvoteServerReadBack(c)
    \/ \E c \in Callers, id \in RequestIds : ReportServerGet(c, id)
    \/ \E c \in Callers : ReportServerUpdate(c)
    \/ \E id \in RequestIds : UpvoteClient(id)
    \/ \E id \in RequestIds : ReportClient(id)

SpecWrites == Init /\ [][NextWrites]_vars

\* the submissions of the read specification; the rating "3" arrives as a
\* string, which the server parses and the client service stores as it is, and
\* the difficulty 0.5 is stored as 0 by the server and as 0.5 by the client;
\* the last three fail one validation rule each
ReadSubs ==
    {Plain,
     [Plain EXCEPT !.rating = Num(50), !.difficultyRating = Num(40)],
     [Plain EXCEPT !.rating = Str(<<"3">>), !.difficultyRating = Num(5)],
     [Plain EXCEPT !.courseCode = Undef],
     [Plain EXCEPT !.rating = Num(60)],
     [Plain EXCEPT !.reviewText = Text(0, MinReviewLength - 1, 0)],
     [Plain EXCEPT !.courseCode = MA201, !.rating = Num(30), !.difficultyRating = Num(20),
                   !.isAnonymous = Bool(FALSE), !.authorName = Al, !.authorEmail = AlMail]}

\* what a read may be asked for: courses with reviews, one without, no course
CourseArgs == {CS101, MA201, Str(<<"P", "H", "1">>), Str(<<>>)}

\* the reads, against every collection the writes produce (the server's
\* upvote and report leave the documents the client's do, so the client's stand
\* for both here)
NextReads ==
    \/ \E d \in ReadSubs : SubmitServer(d)
    \/ \E d \in ReadSubs : SubmitClient(d)
    \/ \E id \in RequestIds : UpvoteClient(id)
    \/ \E id \in RequestIds : ReportClient(id)
    \/ \E course \in CourseArgs \cup {Undef} : GetReviewsServer(course)
    \/ \E course \in CourseArgs \ {Str(<<>>)} : GetReviewsClient(course)
    \/ \E course \in CourseArgs : GetCourseStats(course)

SpecReads == Init /\ [][NextReads]_vars

\* the most reviews of one course in the rounding specification: the least
\* count at which sum / count can lie half way between two one-decimal values
\* without being a binary fraction
MaxCount == 20

\* a collection of n reviews of CS101 as the server handler writes them, the
\* first k with rating and difficulty 5, the others with 4
RatedStore(n, k) ==
    [i \in 1..n |->
        ReviewServer([Plain EXCEPT
                         !.rating = IF i <= k THEN Num(50) ELSE Num(40),
                         !.difficultyRating = IF i <= k THEN Num(50) ELSE Num(40)],
                     i)]

InitRounding ==
    /\ \E n \in 1..MaxCount : \E k \in 0..n : store = RatedStore(n, k)
    /\ now = Len(store)
    /\ calls = [c \in Callers |-> Idle]
    /\ applied = [i \in DOMAIN store |-> 0]
    /\ last = NoResponse
    /\ hook = HookInit
    /\ pending = [k \in Slots |-> NoPending]
    /\ form = FormInit

\* the aggregates of every such collection, through each of the three reads
NextRounding ==
    \/ \E course \in {CS101} : GetReviewsServer(course)
    \/ \E course \in {CS101} : GetReviewsClient(course)
    \/ \E course \in {CS101} : GetCourseStats(course)

SpecRounding == InitRounding /\ [][NextRounding]_vars

\* the courses the page is opened for
HookCourses == {CS101, MA201}

\* the ids markHelpful is called with: those of reviews and one no review has
HookIds == 1..(MaxReviews + 1)

\* one page with the hook, while reviews are submitted (by this or any user)
NextHook ==
    \/ \E d \in WriteSubs : SubmitClient(d)
    \/ \E course \in HookCourses : Render(course)
    \/ \E k \in Slots : FetchQuery(k)
    \/ \E k \in Slots : FetchSettle(k)
    \/ Refresh
    \/ \E id \in HookIds : MarkHelpful(id)
    \/ \E k \in Slots : MarkHelpfulUpdate(k)
    \/ \E k \in Slots : MarkHelpfulSettle(k)

SpecHook == Init /\ [][NextHook]_vars

\* what is typed into the form: nothing, blanks only, 19 letters and a
\* blank, 20 letters between blanks
FormTexts ==
    {Str(<<>>), Str(Rep(" ", MinReviewLength)), Text(0, MinReviewLength - 1, 1),
     Text(1, MinReviewLength, 1)}
FormNames == {Str(<<>>), Str(<<" ">>), Al}

\* one form, edited and submitted, with an onSubmit that resolves or throws
NextForm ==
    \/ \E value \in 1..5 : HandleRatingChange(value)
    \/ \E value \in FormTexts : HandleInputChange("reviewText", value)
    \/ \E value \in FormNames : HandleInputChange("authorName", value)
    \/ \E checked \in BOOLEAN : HandleCheckboxChange(checked)
    \/ HandleSubmit
    \/ OnSubmitResolves
    \/ OnSubmitThrows

SpecForm == Init /\ [][NextForm]_vars

----------------------------------------------------------------------------
(* Claims on validation and normalisation *)

Submitted == last.op = "submitReview"
\* the submission was admitted and its document written
Persisted == Submitted /\ last.reviewId # 0
Rejected == Submitted /\ last.reviewId = 0
RatingError ==
    \/ last.side = "server" /\ last.status = 400
           /\ last.error = "rating must be between 1 and 5"
    \/ last.side = "client" /\ last.error = "Rating must be between 1 and 5"
ReviewTextError ==
    \/ last.side = "server" /\ last.status = 400
           /\ last.error = "reviewText is required and must be at least 20 characters"
    \/ last.side = "client" /\ last.error = "Review text must be at least 20 characters"

IntegerRatings == {Num(10 * k) : k \in 1..5}

\* C1: a submission with isAnonymous = true, through either boundary, is
\* persisted with authorName "Anonymous" and no authorEmail, whatever name and
\* e-mail it carried.
C1_AnonymousSubmissionRedacted ==
    (Persisted /\ last.sub.isAnonymous = Bool(TRUE)) =>
        /\ store[last.reviewId].authorName = Str(Anonymous)
        /\ store[last.reviewId].authorEmail = Null

C1_Witness ==
    /\ Persisted
    /\ last.sub.isAnonymous = Bool(TRUE)
    /\ last.sub.authorName = Al
    /\ last.sub.authorEmail = AlMail
    /\ store[last.reviewId].authorEmail = Null

\* C2: every stored review whose isAnonymous is true has no authorEmail and the
\* authorName "Anonymous" (so also one submitted without isAnonymous but with a
\* name and an e-mail).
C2_StoredAnonymousRedacted ==
    \A i \in DOMAIN store :
        store[i].isAnonymous = Bool(TRUE) =>
            /\ store[i].authorEmail = Null
            /\ store[i].authorName = Str(Anonymous)

\* C3: a submission with a non-empty courseCode, a rating in 1..5 and a review
\* text of (trimmed) length >= 20 is accepted and persisted; a rating outside
\* 1..5 is rejected with the rating error; a review text of trimmed length < 20
\* is rejected with the review-text error.  (Each rejection is stated for
\* submissions whose other required fields are present and valid, and the
\* rating rejection for a rating that is present, i.e. not 0.)
C3_AcceptsAndRejects ==
    Submitted =>
        LET d       == last.sub
            codeOk  == d.courseCode.t = "string" /\ d.courseCode.s # <<>>
            rateOk  == d.rating \in IntegerRatings
            rateOut == /\ d.rating.t = "number" /\ d.rating.n # 0
                       /\ (d.rating.n < MinRating \/ d.rating.n > MaxRating)
            isText  == d.reviewText.t = "string" /\ d.reviewText.s # <<>>
            textOk  == isText /\ Len(Trim(d.reviewText.s)) >= MinReviewLength
        IN  /\ (codeOk /\ rateOk /\ textOk) => Persisted
            /\ (codeOk /\ rateOut /\ textOk) => (Rejected /\ RatingError)
            /\ (codeOk /\ rateOk /\ isText /\ ~textOk) => (Rejected /\ ReviewTextError)

\* C4: every stored review's rating is an integer in 1..5.
C4_StoredRatingInRange ==
    \A i \in DOMAIN store : store[i].rating \in IntegerRatings

\* C5: every stored review has each optional rating absent or an integer in 1..5.
C5_StoredOptionalRatingsInRange ==
    \A i \in DOMAIN store :
        /\ store[i].difficultyRating \in IntegerRatings \cup {Null}
        /\ store[i].workloadRating \in IntegerRatings \cup {Null}
        /\ store[i].profHelpfulnessRating \in IntegerRatings \cup {Null}

----------------------------------------------------------------------------
(* Claims on votes and reports *)

\* the store executes an upvote's update on review i in this step
MarkHelpfulStep(i) == i \in DOMAIN applied /\ applied'[i] = applied[i] + 1

\* the store executes a report's update on review i in this step
ReportStep(i) ==
    \/ ReportClient(i) /\ Exists(i)
    \/ \E c \in Callers : calls[c].id = i /\ ReportServerUpdate(c)

ContentFields == ValueFields \cup {"createdAt", "verified"}

\* C6: markHelpful on an existing review adds exactly 1 to its helpfulVotes and
\* exactly 1 to its totalVotes, and helpfulVotes <= totalVotes holds of every
\* review in every reachable state.
C6_MarkHelpfulAddsOne ==
    /\ [](\A i \in DOMAIN store : store[i].helpfulVotes <= store[i].totalVotes)
    /\ [][\A i \in DOMAIN store :
            MarkHelpfulStep(i) =>
                /\ store'[i].helpfulVotes = store[i].helpfulVotes + 1
                /\ store'[i].totalVotes = store[i].totalVotes + 1]_vars

C6_Witness ==
    \E i \in DOMAIN store :
        /\ store[i].helpfulVotes = 2
        /\ store[i].totalVotes = 2
        /\ last.op = "upvoteReview" /\ last.id = i /\ last.error = ""

\* C7: two server upvotes of one review that overlap (both read the review
\* before either updated it) both succeed and both count: once both updates
\* are done the review's helpfulVotes and totalVotes are 2 above what the two
\* requests read, plus whatever other upvotes the store executed meanwhile
\* (every executed upvote is in the counters), and an upvote of an existing
\* review is never answered with a failure.
C7_ConcurrentUpvotesBothCount ==
    /\ \A c1, c2 \in Callers :
          (/\ c1 # c2
           /\ calls[c1].pc = "readback" /\ calls[c2].pc = "readback"
           /\ calls[c1].id = calls[c2].id
           /\ calls[c1].doc = calls[c2].doc) =>
              LET i == calls[c1].id
              IN  /\ store[i].helpfulVotes >= calls[c1].doc.helpfulVotes + 2
                  /\ store[i].totalVotes >= calls[c1].doc.totalVotes + 2
    /\ \A i \in DOMAIN store :
          /\ store[i].helpfulVotes = applied[i]
          /\ store[i].totalVotes = applied[i]
    /\ (last.op = "upvoteReview" /\ Exists(last.id)) =>
          /\ last.error = ""
          /\ last.side = "server" => last.status = 200

C7_Witness ==
    \E c1, c2 \in Callers :
        /\ c1 # c2
        /\ calls[c1].pc = "readback" /\ calls[c2].pc = "readback"
        /\ calls[c1].id = calls[c2].id
        /\ calls[c1].doc = calls[c2].doc
        /\ store[calls[c1].id].helpfulVotes = calls[c1].doc.helpfulVotes + 2
        /\ store[calls[c1].id].totalVotes = calls[c1].doc.totalVotes + 2

\* C8: markHelpful or reportReview with an id no review has fails with
\* NotFound, the error kind whose message is 'Review not found' (and status
\* 404 on the server), distinct from a store failure.
C8_UnknownIdNotFound ==
    (last.op \in {"upvoteReview", "reportReview"} /\ last.id # 0 /\ ~Exists(last.id)) =>
        /\ last.error = "Review not found"
        /\ last.side = "server" => last.status = 404

\* C9: reportReview on an existing review adds exactly 1 to its reportedCount
\* and leaves its helpfulVotes, totalVotes and content fields, and every other
\* review, as they were.
C9_ReportAddsOne ==
    [][\A i \in DOMAIN store :
          ReportStep(i) =>
              /\ store'[i].reportedCount = store[i].reportedCount + 1
              /\ store'[i].helpfulVotes = store[i].helpfulVotes
              /\ store'[i].totalVotes = store[i].totalVotes
              /\ \A f \in ContentFields : store'[i][f] = store[i][f]
              /\ DOMAIN store' = DOMAIN store
              /\ \A j \in DOMAIN store : j # i => store'[j] = store[j]]_vars

C9_Witness ==
    /\ Len(store) = 2
    /\ store[1].reportedCount = 1
    /\ store[1].helpfulVotes = 0 /\ store[1].totalVotes = 0
    /\ store[2].reportedCount = 0
    /\ last.op = "reportReview" /\ last.id = 1 /\ last.error = ""

----------------------------------------------------------------------------
(* Claims on the reads *)

\* C10: for a course no stored review names, fetch-by-course answers reviews
\* = [], averageRating = 0 and totalReviews = 0, and stats answers
\* totalReviews = 0 and 0 for averageRating and for each of the three optional
\* averages.
C10_EmptyCourseAllZero ==
    (last.op \in {"getReviews", "getCourseStats"} /\ Truthy(last.course)
        /\ Matching(last.course) = {}) =>
        /\ last.error = ""
        /\ last.side = "server" => last.status = 200
        /\ last.reviews = <<>>
        /\ last.totalReviews = 0
        /\ last.averageRating = Num(0)
        /\ last.op = "getCourseStats" =>
              /\ last.averageDifficulty = Num(0)
              /\ last.averageWorkload = Num(0)
              /\ last.averageProfHelpfulness = Num(0)

C10_Witness ==
    /\ last.op = "getCourseStats"
    /\ Truthy(last.course)
    /\ Matching(last.course) = {}
    /\ store # <<>>
    /\ last.averageProfHelpfulness = Num(0)

\* the response of a read that completes in this step
ReadStep(ops) == last' # last /\ last'.op \in ops /\ last'.error = ""

\* the sum of field f over the reviews of S, as numbers, in tenths
RECURSIVE FieldSum(_, _)
FieldSum(S, f) ==
    IF S = {} THEN 0
    ELSE LET i == CHOOSE j \in S : TRUE
         IN  ToNumber(store[i][f]).n + FieldSum(S \ {i}, f)

RatingSum(S) == FieldSum(S, "rating")

\* v is total / n rounded to one decimal place (all in tenths; a value half
\* way between two decimals may go either way)
IsRounded(v, total, n) ==
    /\ v.t = "number"
    /\ 2 * (total - v.n * n) <= n
    /\ 2 * (v.n * n - total) <= n

\* C11: whenever fetch-by-course or stats answers for a course that has
\* persisted reviews, totalReviews is the number of persisted reviews with
\* that courseCode and averageRating is the sum of their ratings divided by
\* that number, rounded to one decimal place; reviews of other courses do not
\* contribute.
C11_AggregatesOfCourse ==
    [][(ReadStep({"getReviews", "getCourseStats"}) /\ Matching(last'.course) # {}) =>
          /\ last'.totalReviews = Cardinality(Matching(last'.course))
          /\ IsRounded(last'.averageRating, RatingSum(Matching(last'.course)),
                       Cardinality(Matching(last'.course)))]_vars

\* the reviews of a course that supply the optional rating f
Supplying(course, f) == {i \in Matching(course) : store[i][f] # Null}

OptionalAverages ==
    {<<"difficultyRating", "averageDifficulty">>,
     <<"workloadRating", "averageWorkload">>,
     <<"profHelpfulnessRating", "averageProfHelpfulness">>}

\* C12: in the answer of getCourseStats for a course with reviews, each of
\* averageDifficulty, averageWorkload and averageProfHelpfulness is the sum of
\* its field over the reviews where the field is present (non-null) divided by
\* the number of those reviews (not by totalReviews), rounded to one decimal
\* place, and 0 when no review supplies the field.
C12_OptionalAverages ==
    [][(ReadStep({"getCourseStats"}) /\ Matching(last'.course) # {}) =>
          \A p \in OptionalAverages :
              LET S == Supplying(last'.course, p[1])
              IN  IF S = {} THEN last'[p[2]] = Num(0)
                  ELSE IsRounded(last'[p[2]], FieldSum(S, p[1]), Cardinality(S))]_vars

ServerValidationErrors ==
    {"courseCode is required", "rating must be between 1 and 5",
     "reviewText is required and must be at least 20 characters"}
ClientValidationErrors ==
    {"Missing required fields: courseCode, rating, or reviewText",
     "Rating must be between 1 and 5", "Review text must be at least 20 characters"}

\* the last response is a submission's rejection by validation
RejectedByValidation ==
    /\ Submitted
    /\ \/ last.side = "server" /\ last.status = 400
              /\ last.error \in ServerValidationErrors
       \/ last.side = "client" /\ last.error \in ClientValidationErrors

\* C13: a submission that validation rejects (missing courseCode, invalid
\* rating or invalid reviewText), on the server or in the client service,
\* writes nothing: the persisted reviews and all their fields are the same
\* after the call as before it, and no review id is returned.
C13_RejectedSubmissionWritesNothing ==
    [][(last' # last /\ RejectedByValidation') =>
          /\ store' = store
          /\ last'.reviewId = 0]_vars

C13_Witness ==
    /\ RejectedByValidation
    /\ last.side = "server"
    /\ last.error = "rating must be between 1 and 5"
    /\ Len(store) = MaxReviews

----------------------------------------------------------------------------
(* Claims on the life of a review *)

Counters == {"helpfulVotes", "totalVotes", "reportedCount"}

\* C14: in every step of every interleaving of submissions, upvotes and
\* reports (server requests overlapping): no persisted review is removed, the
\* content fields of a persisted review stay as they were created, and
\* helpfulVotes, totalVotes and reportedCount are 0 on creation and never
\* decrease.
C14_ReviewsOnlyGrow ==
    [][/\ DOMAIN store \subseteq DOMAIN store'
       /\ \A i \in DOMAIN store :
             /\ \A f \in ContentFields : store'[i][f] = store[i][f]
             /\ \A f \in Counters : store'[i][f] >= store[i][f]
       /\ \A i \in DOMAIN store' \ DOMAIN store :
             \A f \in Counters : store'[i][f] = 0]_vars

C14_Witness ==
    /\ Len(store) = 2
    /\ store[1].helpfulVotes = 1
    /\ store[1].totalVotes = 1
    /\ store[2].helpfulVotes = 0
    /\ store[1].courseCode # store[2].courseCode

----------------------------------------------------------------------------
(* Claims on the order of validation and on named authors *)

MissingFieldError ==
    \/ last.side = "server" /\ last.status = 400 /\ last.error = "courseCode is required"
    \/ last.side = "client"
           /\ last.error = "Missing required fields: courseCode, rating, or reviewText"

\* C15: validation reports the first failing rule in the order courseCode,
\* rating, reviewText: a submission without a courseCode (absent or empty) is
\* rejected with the missing-field error whatever its rating and reviewText,
\* and a submission with a courseCode and an invalid rating (absent,
\* non-numeric or outside 1..5) is rejected with the rating error whatever its
\* reviewText.
C15_FirstFailingRule ==
    Submitted =>
        LET d          == last.sub
            codeOk     == d.courseCode.t = "string" /\ d.courseCode.s # <<>>
            x          == ToNumber(d.rating)
            rateFails  == \/ d.rating \in {Undef, Null}
                          \/ x.t = "nan"
                          \/ x.n < MinRating \/ x.n > MaxRating
        IN  /\ ~codeOk => (Rejected /\ MissingFieldError)
            /\ (codeOk /\ rateFails) => (Rejected /\ RatingError)

\* C16: a submission with isAnonymous = false is persisted with isAnonymous =
\* false, with the supplied authorName when that is non-empty and "Anonymous"
\* when it is empty or missing, and with the supplied authorEmail (none when
\* none was supplied).
C16_NamedSubmissionKept ==
    (Persisted /\ last.sub.isAnonymous = Bool(FALSE)) =>
        LET d   == last.sub
            doc == store[last.reviewId]
            supplied(x) == x.t = "string" /\ x.s # <<>>
        IN  /\ doc.isAnonymous = Bool(FALSE)
            /\ doc.authorName = IF supplied(d.authorName) THEN d.authorName
                                 ELSE Str(Anonymous)
            /\ doc.authorEmail = IF supplied(d.authorEmail) THEN d.authorEmail
                                  ELSE Null

----------------------------------------------------------------------------
(* Claims on the list of a course and on repeated reads *)

\* C17: the reviews list that fetch-by-course returns (server getReviews and
\* client getReviewsByCourse) holds exactly the persisted reviews with the
\* requested courseCode, each once and with its stored votes, in order of
\* non-increasing helpfulVotes as of the read.
C17_ListOfCourseByVotes ==
    [][ReadStep({"getReviews"}) =>
          LET L == last'.reviews
          IN  /\ {L[k].id : k \in DOMAIN L} = Matching(last'.course)
              /\ Len(L) = Cardinality(Matching(last'.course))
              /\ \A k \in DOMAIN L :
                    /\ L[k].courseCode = last'.course
                    /\ L[k].helpfulVotes = store[L[k].id].helpfulVotes
              /\ \A k \in 1..(Len(L) - 1) :
                    L[k].helpfulVotes >= L[k + 1].helpfulVotes]_vars

C17_Witness ==
    /\ last.op = "getReviews"
    /\ Len(last.reviews) = 2
    /\ last.reviews[1].id = 1
    /\ last.reviews[1].helpfulVotes = 1
    /\ last.reviews[2].helpfulVotes = 0
    /\ Len(store) = 2

Reads == {"getReviews", "getCourseStats"}

\* C18: fetch-by-course and stats leave the store as it is, and two
\* fetch-by-course calls for one courseCode with no submission, upvote or
\* report between them (through the same boundary or one through each)
\* return the same averageRating, the same totalReviews and the same reviews
\* list.
C18_ReadsRepeat ==
    [][/\ (last' # last /\ last'.op \in Reads) => store' = store
       /\ (/\ last.op = "getReviews" /\ last'.op = "getReviews"
           /\ last.error = "" /\ last'.error = ""
           /\ last.course = last'.course) =>
              /\ last'.averageRating = last.averageRating
              /\ last'.totalReviews = last.totalReviews
              /\ last'.reviews = last.reviews]_vars

C18_Witness ==
    /\ last.op = "getReviews"
    /\ last.side = "client"
    /\ last.totalReviews = 2
    /\ last.averageRating = Num(45)
    /\ store[1].helpfulVotes = 1

----------------------------------------------------------------------------
(* Claims on rounding *)

\* floor(total / n + 1/2) for total in tenths: total / n rounded half up to a
\* whole number of tenths, in integer arithmetic
HalfUp(total, n) == (2 * total + n) \div (2 * n)

\* C19: the overall average and each submetric average a read reports are
\* the exact quotient rounded half up to one decimal place: for an integer sum
\* S over n reviews the value is floor(10 * S / n + 1/2) / 10, also when S / n
\* lies exactly on a .x5 boundary (S = 87, n = 20 gives 4.4).
C19_RoundHalfUp ==
    [][(ReadStep(Reads) /\ Matching(last'.course) # {}) =>
          LET M == Matching(last'.course)
          IN  /\ last'.averageRating = Num(HalfUp(RatingSum(M), Cardinality(M)))
              /\ last'.op = "getCourseStats" =>
                    \A p \in OptionalAverages :
                        LET S == Supplying(last'.course, p[1])
                        IN  S # {} =>
                              last'[p[2]] = Num(HalfUp(FieldSum(S, p[1]), Cardinality(S)))]_vars

----------------------------------------------------------------------------
(* Claims on the two submitReview implementations *)

ComparedFields ==
    {"rating", "reviewText", "difficultyRating", "workloadRating",
     "profHelpfulnessRating", "isAnonymous", "authorName", "authorEmail"}

\* C20: the client service's submitReview and the server handler enforce the
\* same rule: each submission is accepted by both or rejected by both, and a
\* submission both accept is persisted by both with the same rating,
\* reviewText, optional ratings, isAnonymous, authorName and authorEmail.
C20_ClientMatchesServer ==
    Submitted =>
        LET d == last.sub
        IN  /\ (ValidateServer(d) = "") <=> (ValidateClient(d) = "")
            /\ (ValidateServer(d) = "" /\ ValidateClient(d) = "") =>
                  \A f \in ComparedFields :
                      ReviewServer(d, now)[f] = ReviewClient(d, now)[f]

----------------------------------------------------------------------------
(* Claims on the two aggregations *)

\* C21: against one state of the store and for one courseCode, getCourseStats
\* answers the averageRating and the totalReviews that getReviews (and the
\* client's getReviewsByCourse) answers: of two reads of one course that follow
\* one another with no write between them, one a fetch-by-course and the other
\* the stats, both carry the same two values.
C21_StatsMatchFetch ==
    [][(/\ last.op \in Reads /\ last'.op \in Reads
        /\ last.op # last'.op
        /\ last.error = "" /\ last'.error = ""
        /\ last.course = last'.course) =>
           /\ last'.averageRating = last.averageRating
           /\ last'.totalReviews = last.totalReviews]_vars

----------------------------------------------------------------------------
(* Claims on the useReviews hook *)

FetchOutstanding == \E k \in Slots : pending[k].op = "fetchReviews"

\* C22: when the hook's courseCode has changed while a fetch for the earlier
\* courseCode was outstanding, then once no fetch is outstanding the reviews
\* the hook holds are reviews of its latest courseCode: a late response for
\* an earlier courseCode does not replace the state of the later one.
C22_LatestCourseShown ==
    (~FetchOutstanding /\ Truthy(hook.courseCode)) =>
        \A i \in DOMAIN hook.reviews : hook.reviews[i].courseCode = hook.courseCode

\* an outstanding markHelpful settles in this step
MarkHelpfulSettles(k) ==
    /\ pending[k].op = "markHelpful" /\ pending[k].pc = "settle"
    /\ pending'[k].pc = "idle"

NothingOutstanding == \A k \in Slots : pending[k].pc = "idle"

\* C23: when upvoteReview fails, markHelpful leaves the hook's reviews as they
\* were and results in {success: false}; when it succeeds, the local review
\* with the given id, and no other, has helpfulVotes and totalVotes one
\* higher; so with the hook the only writer of votes, once a successful
\* markHelpful has returned and nothing is outstanding the local counters of
\* that review are the stored counters.
C23_MarkHelpfulLocalUpdate ==
    /\ []((/\ last.op = "markHelpful" /\ last.error = ""
           /\ NothingOutstanding) =>
              \A i \in DOMAIN hook.reviews :
                  hook.reviews[i].id = last.id =>
                      /\ hook.reviews[i].helpfulVotes = store[last.id].helpfulVotes
                      /\ hook.reviews[i].totalVotes = store[last.id].totalVotes)
    /\ [][\A k \in Slots :
            MarkHelpfulSettles(k) =>
                /\ last'.op = "markHelpful"
                /\ pending[k].data.error # "" =>
                      last'.error # "" /\ hook'.reviews = hook.reviews
                /\ pending[k].data.error = "" =>
                      /\ last'.error = ""
                      /\ DOMAIN hook'.reviews = DOMAIN hook.reviews
                      /\ \A i \in DOMAIN hook.reviews :
                            IF hook.reviews[i].id = pending[k].id
                            THEN hook'.reviews[i] =
                                   [hook.reviews[i] EXCEPT !.helpfulVotes = @ + 1,
                                                           !.totalVotes = @ + 1]
                            ELSE hook'.reviews[i] = hook.reviews[i]]_vars

----------------------------------------------------------------------------
(* Claims on the ReviewForm component *)

\* the argument of the outstanding onSubmit call
OnSubmitArgumentValid ==
    /\ form.call.data.rating # Num(0)
    /\ Len(Trim(form.call.data.reviewText.s)) >= MinReviewLength
    /\ \/ form.call.data.isAnonymous = Bool(TRUE)
       \/ Trim(form.call.data.authorName.s) # <<>>

\* C24: ReviewForm calls onSubmit only with a form state whose rating is not
\* 0, whose reviewText has trimmed length >= 20 and which is anonymous or has
\* a non-blank authorName; isSubmitting is true only while an onSubmit call
\* is outstanding, and is false again when the call has resolved or thrown.
C24_FormGuardsOnSubmit ==
    /\ [](form.call.pc = "outstanding" => OnSubmitArgumentValid)
    /\ [](form.isSubmitting => form.call.pc = "outstanding")
    /\ [][(form.call.pc = "outstanding" /\ form'.call.pc = "idle") =>
             ~form'.isSubmitting]_vars

C24_Witness ==
    /\ form.call.pc = "idle"
    /\ ~form.isSubmitting
    /\ form.errors.submit # ""
    /\ form.isAnonymous = Bool(FALSE)
    /\ form.authorName = Al
    /\ form.reviewText = Text(1, MinReviewLength, 1)

====
